---- MODULE Spec2Model ----
(***************************************************************************)
(* Ledger core of the bank back office (src/app.py): customers, accounts,  *)
(* transactions and loans kept in a relational store, and the request      *)
(* handlers that change them.                                              *)
(*                                                                         *)
(* Store semantics are those of the default configuration (line 14:        *)
(* sqlite through SQLAlchemy):                                             *)
(*  - a SELECT runs outside any transaction and sees the committed rows;   *)
(*  - the first write of a session takes the database write lock, which is *)
(*    held until commit or rollback, so everything a handler does from its *)
(*    first flush to its commit is one atomic step;                        *)
(*  - a session writes the values it computed from the rows it loaded      *)
(*    (UPDATE ... SET balance = <value>), not increments;                  *)
(*  - UNIQUE and NOT NULL constraints are enforced, foreign keys are not;  *)
(*  - an integer primary key is the rowid: a new row gets max(id) + 1.     *)
(* Columns no handler branches on (name, address, password hash, account   *)
(* type, interest rate, term, creation dates) are left out.                *)
(***************************************************************************)
EXTENDS Integers, FiniteSets, Sequences, TLC

\* ---------------------------------------------------------------- bounds
NumProcs == 2
MaxCustomers == 2
MaxCustomerId == 3
MaxLoans == 2
MaxTxns == 3
NumContacts == 2
NumTimes == 2
MaxLoanAmount == 2

Procs == 1..NumProcs
Contacts == 1..NumContacts
Times == 1..NumTimes
LoanAmounts == 1..MaxLoanAmount
NULL == 0

VARIABLES customers, accounts, loans, transactions, pc, local, result

db == <<customers, accounts, loans, transactions>>
vars == <<customers, accounts, loans, transactions, pc, local, result>>

\* ---------------------------------------------------------------- helpers
Max(S) == CHOOSE x \in S : \A y \in S : y <= x

\* sqlite rowid: one more than the largest id in the table.
NextId(table) == IF DOMAIN table = {} THEN 1 ELSE Max(DOMAIN table) + 1

\* table with one more row / without the rows of D.
Insert(table, id, row) == [i \in DOMAIN table \cup {id} |-> IF i = id THEN row ELSE table[i]]
DeleteRows(table, D) == [i \in DOMAIN table \ D |-> table[i]]

\* ---------------------------------------------------------- account numbers
\* An integer of line 439 is too wide for the checker's integers and is held
\* in two limbs of five decimal digits, <<high, low>>.
RandIntLo == <<10000, 0>>
RandIntHi == <<99999, 99999>>

\* The values random.randint(1000000000, 9999999999) is drawn from here: the
\* low end of the range, enough of it that a free number always exists, and
\* the high end.
RandInts == {<<RandIntLo[1], RandIntLo[2] + k>> : k \in 0..(MaxCustomers - 1)} \cup {RandIntHi}

\* str(n) of a natural number, as its decimal digits.
RECURSIVE Digits(_)
Digits(n) == IF n < 10 THEN <<n>> ELSE Append(Digits(n \div 10), n % 10)

\* The low limb's five digits, leading zeros kept.
LowDigits(n) == <<(n \div 10000) % 10, (n \div 1000) % 10, (n \div 100) % 10, (n \div 10) % 10, n % 10>>

\* str(n) of a two-limb number.
Str(n) == IF n[1] = 0 THEN Digits(n[2]) ELSE Digits(n[1]) \o LowDigits(n[2])

\* account_number = str(random.randint(...)), lines 439 and 442.
CandidateNumbers == {Str(n) : n \in RandInts}

NoLocal == [loan |-> 0, account_id |-> 0, amount |-> 0, contact |-> 0, cust |-> 0, number |-> 0]

Idle(p) == pc[p] = "idle"
Finish(p, r) == /\ pc' = [pc EXCEPT ![p] = "idle"]
                /\ local' = [local EXCEPT ![p] = NoLocal]
                /\ result' = [result EXCEPT ![p] = r]
\* The request is answered; its arguments stay on record until the next one.
Answer(p, r) == /\ pc' = [pc EXCEPT ![p] = "idle"]
                /\ result' = [result EXCEPT ![p] = r]
                /\ UNCHANGED local
Goto(p, label, l) == /\ pc' = [pc EXCEPT ![p] = label]
                     /\ local' = [local EXCEPT ![p] = l]
                     /\ UNCHANGED result

\* ------------------------------------------------- lookups and constraints
\* Customer.query.filter_by(contact_info=...).first(), lines 280 and 426.
ExistingCustomer(contact) == \E k \in DOMAIN customers : customers[k].contact_info = contact

\* Account.query.filter_by(account_number=...).first(), lines 440 and 443.
ExistingAccount(n) == \E a \in DOMAIN accounts : accounts[a].account_number = n

\* Line 25 without unique=True.
ContactNeverConflicts(c, id) == FALSE

\* Line 43 without unique=True.
NumberNeverConflicts(n) == FALSE

\* Customer.contact_info is UNIQUE (line 25): an INSERT or UPDATE giving row
\* `id` the contact `c` fails when another row holds it.
ContactConflict(c, id) == \E k \in DOMAIN customers : k # id /\ customers[k].contact_info = c

\* Account.account_number is UNIQUE (line 43).
NumberConflict(n) == \E a \in DOMAIN accounts : accounts[a].account_number = n

Init == /\ customers = <<>>
        /\ accounts = <<>>
        /\ loans = <<>>
        /\ transactions = <<>>
        /\ pc = [p \in Procs |-> "idle"]
        /\ local = [p \in Procs |-> NoLocal]
        /\ result = [p \in Procs |-> "none"]

\* ------------------------------------------------------------ registration
\* Requests in flight that may still insert a customer.
Registering == {p \in Procs : pc[p] \in {"reg_customer", "reg_number", "reg_account"}}

\* register, lines 410-429: form validation and the contact lookup.
RegisterCheck(p, contact, formOk) ==
    /\ Idle(p)
    /\ Cardinality(DOMAIN customers) + Cardinality(Registering) < MaxCustomers
    /\ NextId(customers) + Cardinality(Registering) <= MaxCustomerId
    /\ UNCHANGED db
    /\ IF ~formOk THEN Finish(p, "invalid")
       ELSE IF ExistingCustomer(contact) THEN Finish(p, "exists")
       ELSE Goto(p, "reg_customer", [NoLocal EXCEPT !.contact = contact])

\* register, lines 431-437 (and 459-463 when the INSERT fails).
RegisterInsertCustomer(p) ==
    /\ pc[p] = "reg_customer"
    /\ UNCHANGED <<accounts, loans, transactions>>
    /\ IF ContactConflict(local[p].contact, NULL)
       THEN /\ UNCHANGED customers
            /\ Finish(p, "registration_error")
       ELSE LET id == NextId(customers) IN
            /\ customers' = Insert(customers, id, [contact_info |-> local[p].contact])
            /\ Goto(p, "reg_number", [local[p] EXCEPT !.cust = id])

\* register, lines 439-443: the loop ends with a number no account held when
\* it was looked up.
RegisterPickNumber(p, n) ==
    /\ pc[p] = "reg_number"
    /\ ~ExistingAccount(n)
    /\ UNCHANGED db
    /\ Goto(p, "reg_account", [local[p] EXCEPT !.number = n])

\* register, lines 446-463: new_customer.id is reloaded after the first
\* commit (the row may be gone), then the account is inserted and committed.
RegisterInsertAccount(p) ==
    /\ pc[p] = "reg_account"
    /\ UNCHANGED <<customers, loans, transactions>>
    /\ IF local[p].cust \notin DOMAIN customers \/ NumberConflict(local[p].number)
       THEN /\ UNCHANGED accounts
            /\ Finish(p, "registration_error")
       ELSE /\ accounts' = Insert(accounts, NextId(accounts),
                                  [customer_id |-> local[p].cust,
                                   account_number |-> local[p].number,
                                   balance |-> 0])
            /\ Finish(p, "registered")

\* --------------------------------------------------------- admin: customers
\* admin_add_customer, lines 270-299: the new row has no password hash, so
\* the INSERT breaks NOT NULL (line 26) and the commit is rolled back.
AdminAddCustomer(p, contact, formOk) ==
    /\ Idle(p)
    /\ UNCHANGED db
    /\ IF ~formOk THEN Finish(p, "invalid")
       ELSE IF ExistingCustomer(contact) THEN Finish(p, "exists")
       ELSE Finish(p, "add_error")

\* admin_edit_customer, lines 201-234: the lookup of line 218 flushes the
\* UPDATE first, so a contact another customer holds fails on the UNIQUE
\* constraint before the handler's own check sees it.
AdminEditCustomer(p, c, contact, formOk) ==
    /\ Idle(p)
    /\ c \in DOMAIN customers
    /\ UNCHANGED <<accounts, loans, transactions>>
    /\ IF ~formOk
       THEN UNCHANGED customers /\ Finish(p, "invalid")
       ELSE IF ContactConflict(contact, c)
       THEN UNCHANGED customers /\ Finish(p, "edit_error")
       ELSE /\ customers' = [customers EXCEPT ![c].contact_info = contact]
            /\ Finish(p, "updated")

\* admin_delete_customer, lines 244-265, with the cascades of lines 28, 29
\* and 48 and the foreign key of line 49 set to NULL.
OwnedAccounts(c) == {a \in DOMAIN accounts : accounts[a].customer_id = c}
OwnedLoans(c) == {l \in DOMAIN loans : loans[l].customer_id = c}
TransactionsOf(A) == {t \in DOMAIN transactions : transactions[t].account_id \in A}

AdminDeleteCustomer(p, c) ==
    /\ Idle(p)
    /\ c \in DOMAIN customers
    /\ LET gone == OwnedAccounts(c)
           kept == DOMAIN transactions \ TransactionsOf(gone)
       IN /\ customers' = DeleteRows(customers, {c})
          /\ accounts' = DeleteRows(accounts, gone)
          /\ loans' = DeleteRows(loans, OwnedLoans(c))
          /\ transactions' = [t \in kept |->
                 IF transactions[t].target_account_id \in gone
                 THEN [transactions[t] EXCEPT !.target_account_id = NULL]
                 ELSE transactions[t]]
    /\ Finish(p, "deleted")

\* ------------------------------------------------------------------- loans
\* Requests in flight that may still append a transaction.
Appending == {p \in Procs : pc[p] \in {"approve", "withdraw"}}
RoomForTxns(n) == Cardinality(DOMAIN transactions) + Cardinality(Appending) + n <= MaxTxns

\* The row admin_approve_loan adds for a disbursement (lines 344-349); the
\* description 'Loan #<id> disbursed' is kept as loan_id.
Disbursement(account_id, amount, loan_id) ==
    [account_id |-> account_id, transaction_type |-> "Loan Disbursement",
     amount |-> amount, loan_id |-> loan_id, target_account_id |-> NULL]

\* Line 335 as a test for "not yet approved".
ApproveBranchNotApproved(status) ==
    IF status = "Approved" THEN "already_approved" ELSE "approve"

\* The branch of lines 335, 363 and 365 taken for a loaded status.
ApproveBranch(status) ==
    IF status = "Pending" THEN "approve"
    ELSE IF status = "Approved" THEN "already_approved"
    ELSE "cannot_approve"

\* admin_approve_loan, lines 333-335 and 363-369: the loan is loaded and its
\* status decides the branch.
ApproveRead(p, l) ==
    /\ Idle(p)
    /\ l \in DOMAIN loans
    /\ RoomForTxns(1)
    /\ UNCHANGED db
    /\ LET branch == ApproveBranch(loans[l].status) IN
       IF branch = "approve"
       THEN Goto(p, "approve", [NoLocal EXCEPT !.loan = l,
                                               !.account_id = loans[l].account_id,
                                               !.amount = loans[l].loan_amount])
       ELSE Finish(p, branch)

\* Line 342 as an assignment of the amount instead of an addition.
CreditedOverwrites(balance, amount) == amount

\* The balance line 342 stores.
Credited(balance, amount) == balance + amount

\* Lines 351-354 without the early return: the commit of line 357 follows.
CommittedAnyway(table, l, t) == [table EXCEPT ![l].status = "Approved", ![l].approval_date = t]

\* What line 353 leaves of the flushed loan row: rollback undoes the UPDATE.
RolledBack(table, l, t) == table

\* admin_approve_loan, lines 336-362: the UPDATE of the loan is flushed by
\* the lookup of line 340 (no row left to update raises, and the except
\* branch rolls back); a missing account rolls back; otherwise the balance,
\* the new transaction and the loan are committed together.
ApproveWrite(p, t) ==
    /\ pc[p] = "approve"
    /\ UNCHANGED customers
    /\ LET l == local[p].loan
           a == local[p].account_id
           L == local[p].amount
       IN IF l \notin DOMAIN loans
          THEN /\ UNCHANGED <<accounts, loans, transactions>>
               /\ Finish(p, "approve_error")
          ELSE IF a \notin DOMAIN accounts
          THEN /\ loans' = RolledBack(loans, l, t)
               /\ UNCHANGED <<accounts, transactions>>
               /\ Finish(p, "account_not_found")
          ELSE /\ loans' = [loans EXCEPT ![l].status = "Approved", ![l].approval_date = t]
               /\ accounts' = [accounts EXCEPT ![a].balance = Credited(accounts[a].balance, L)]
               /\ transactions' = Insert(transactions, NextId(transactions), Disbursement(a, L, l))
               /\ Finish(p, "approved")

\* admin_reject_loan, lines 375-377 and 387-390.
RejectRead(p, l) ==
    /\ Idle(p)
    /\ l \in DOMAIN loans
    /\ UNCHANGED db
    /\ IF loans[l].status = "Pending"
       THEN Goto(p, "reject", [NoLocal EXCEPT !.loan = l])
       ELSE Finish(p, "cannot_reject")

\* Line 380 left out.
RejectedUndated(row, t) == [row EXCEPT !.status = "Rejected"]

\* The loan row lines 379 and 380 leave.
Rejected(row, t) == [row EXCEPT !.status = "Rejected", !.approval_date = t]

\* admin_reject_loan, lines 378-386.
RejectWrite(p, t) ==
    /\ pc[p] = "reject"
    /\ UNCHANGED <<customers, accounts, transactions>>
    /\ LET l == local[p].loan IN
       IF l \notin DOMAIN loans
       THEN UNCHANGED loans /\ Finish(p, "reject_error")
       ELSE /\ loans' = [loans EXCEPT ![l] = Rejected(loans[l], t)]
            /\ Finish(p, "rejected")

\* ------------------------------------- operations whose handlers are not in
\* ------------------------------------- src/app.py, taken from the specification
\* ApplyLoan(customerId, accountId, amount, rate, termMonths): a Pending loan
\* with an applicant customer reference and a target account reference.
ApplyLoan(p, c, a, amount) ==
    /\ Idle(p)
    /\ c \in DOMAIN customers
    /\ a \in DOMAIN accounts
    /\ Cardinality(DOMAIN loans) < MaxLoans
    /\ loans' = Insert(loans, NextId(loans),
                       [customer_id |-> c, account_id |-> a, loan_amount |-> amount,
                        status |-> "Pending", approval_date |-> NULL])
    /\ UNCHANGED <<customers, accounts, transactions>>
    /\ Finish(p, "applied")

\* Withdraw(account, amount) arrives; it then runs as one isolated
\* transaction (WithdrawExec).
WithdrawCall(p, a, amount) ==
    /\ Idle(p)
    /\ a \in DOMAIN accounts
    /\ RoomForTxns(1)
    /\ UNCHANGED db
    /\ Goto(p, "withdraw", [NoLocal EXCEPT !.account_id = a, !.amount = amount])

\* The sufficient-funds check left out.
WithdrawAllowedAnyPositive(amount, balance) == amount > 0

\* Withdraw requires amount > 0 and amount <= account.balance.
WithdrawAllowed(amount, balance) == amount > 0 /\ amount <= balance

WithdrawExec(p) ==
    /\ pc[p] = "withdraw"
    /\ UNCHANGED <<customers, loans>>
    /\ LET a == local[p].account_id
           w == local[p].amount
       IN IF a \notin DOMAIN accounts
          THEN UNCHANGED <<accounts, transactions>> /\ Answer(p, "NotFound")
          ELSE IF ~WithdrawAllowed(w, accounts[a].balance)
          THEN UNCHANGED <<accounts, transactions>> /\ Answer(p, "InvalidAmount")
          ELSE /\ accounts' = [accounts EXCEPT ![a].balance = @ - w]
               /\ transactions' = Insert(transactions, NextId(transactions),
                      [account_id |-> a, transaction_type |-> "Withdrawal", amount |-> w,
                       loan_id |-> NULL, target_account_id |-> NULL])
               /\ Answer(p, "withdrawn")

\* Transfer(sourceAccount, targetAccountNumber, amount).
Transfer(p, src, number, amount) ==
    /\ Idle(p)
    /\ src \in DOMAIN accounts
    /\ RoomForTxns(2)
    /\ UNCHANGED <<customers, loans>>
    /\ LET targets == {a \in DOMAIN accounts : accounts[a].account_number = number} IN
       IF targets = {} \/ src \in targets
       THEN UNCHANGED <<accounts, transactions>> /\ Finish(p, "InvalidTarget")
       ELSE IF amount <= 0 \/ amount > accounts[src].balance
       THEN UNCHANGED <<accounts, transactions>> /\ Finish(p, "InvalidAmount")
       ELSE LET dst == CHOOSE a \in targets : TRUE
                out == NextId(transactions)
            IN /\ accounts' = [accounts EXCEPT ![src].balance = @ - amount,
                                               ![dst].balance = @ + amount]
               /\ transactions' = Insert(
                      Insert(transactions, out,
                             [account_id |-> src, transaction_type |-> "Transfer Out",
                              amount |-> amount, loan_id |-> NULL, target_account_id |-> dst]),
                      out + 1,
                      [account_id |-> dst, transaction_type |-> "Transfer In",
                       amount |-> amount, loan_id |-> NULL, target_account_id |-> src])
               /\ Finish(p, "transferred")

\* ----------------------------------------------------------- specification
Numbers == {accounts[a].account_number : a \in DOMAIN accounts}
Amounts == 0..(MaxLoanAmount + 1)

Registration(p) ==
    \/ \E c \in Contacts, ok \in BOOLEAN : RegisterCheck(p, c, ok)
    \/ RegisterInsertCustomer(p)
    \/ \E n \in CandidateNumbers : RegisterPickNumber(p, n)
    \/ RegisterInsertAccount(p)

CustomerAdmin(p) ==
    \/ \E c \in Contacts, ok \in BOOLEAN : AdminAddCustomer(p, c, ok)
    \/ \E c \in DOMAIN customers, k \in Contacts, ok \in BOOLEAN : AdminEditCustomer(p, c, k, ok)

DeleteCustomer(p) == \E c \in DOMAIN customers : AdminDeleteCustomer(p, c)

LoanDecisions(p) ==
    \/ \E c \in DOMAIN customers, a \in DOMAIN accounts, L \in LoanAmounts : ApplyLoan(p, c, a, L)
    \/ \E l \in DOMAIN loans : ApproveRead(p, l)
    \/ \E t \in Times : ApproveWrite(p, t)
    \/ \E l \in DOMAIN loans : RejectRead(p, l)
    \/ \E t \in Times : RejectWrite(p, t)

Ledger(p) ==
    \/ \E a \in DOMAIN accounts, w \in Amounts : WithdrawCall(p, a, w)
    \/ WithdrawExec(p)
    \/ \E a \in DOMAIN accounts, n \in Numbers, w \in LoanAmounts : Transfer(p, a, n, w)

\* The whole system: requests interleave at their statements.
Next == \E p \in Procs : \/ Registration(p)
                         \/ CustomerAdmin(p)
                         \/ DeleteCustomer(p)
                         \/ LoanDecisions(p)
                         \/ Ledger(p)
Spec == Init /\ [][Next]_vars

\* Customer management alone, from the empty store; these handlers read and
\* write nothing of loans, transactions and balances.
NextReg == \E p \in Procs : \/ Registration(p)
                            \/ CustomerAdmin(p)
                            \/ DeleteCustomer(p)
SpecReg == Init /\ [][NextReg]_vars

\* The store after MaxCustomers registrations: every customer owns one empty
\* account (SpecReg reaches it).
Populated ==
    /\ customers = [c \in 1..MaxCustomers |-> [contact_info |-> c]]
    /\ accounts = [a \in 1..MaxCustomers |->
                      [customer_id |-> a,
                       account_number |-> Str(<<RandIntLo[1], RandIntLo[2] + a - 1>>),
                       balance |-> 0]]
    /\ loans = <<>>
    /\ transactions = <<>>

InitPopulated == /\ Populated
                 /\ pc = [p \in Procs |-> "idle"]
                 /\ local = [p \in Procs |-> NoLocal]
                 /\ result = [p \in Procs |-> "none"]

\* Loan decisions of concurrent requests.
NextLoan == \E p \in Procs : LoanDecisions(p)
SpecLoan == InitPopulated /\ [][NextLoan]_vars

\* One request at a time: a single worker runs each handler to its end before
\* it takes the next request.
Worker == CHOOSE p \in Procs : \A q \in Procs : p <= q
NextSeq == \/ DeleteCustomer(Worker)
           \/ LoanDecisions(Worker)
           \/ \E a \in DOMAIN accounts, n \in Numbers, w \in LoanAmounts : Transfer(Worker, a, n, w)
SpecSeq == InitPopulated /\ [][NextSeq]_vars

\* N concurrent Withdraw(A, A.balance): after the worker's disbursements have
\* given the accounts their balances, every request calls Withdraw on one
\* account for its whole balance before any of the calls runs.
Called(p) == pc[p] = "withdraw" \/ (pc[p] = "idle" /\ local[p].account_id # NULL)
WithdrawAllCall(p, a) ==
    /\ ~Called(p)
    /\ \A q \in Procs : /\ pc[q] \in {"idle", "withdraw"}
                        /\ Called(q) => pc[q] = "withdraw" /\ local[q].account_id = a
    /\ WithdrawCall(p, a, accounts[a].balance)
NextW == \/ (\A q \in Procs : ~Called(q)) /\ LoanDecisions(Worker)
         \/ \E p \in Procs, a \in DOMAIN accounts : WithdrawAllCall(p, a)
         \/ \E p \in Procs : WithdrawExec(p)
SpecW == InitPopulated /\ [][NextW]_vars

\* ------------------------------------------------------------------ claims
DisbursementsOf(l) ==
    {t \in DOMAIN transactions :
        transactions[t].transaction_type = "Loan Disbursement" /\ transactions[t].loan_id = l}

\* The step in which request p ends its pass through lines 336-362.
ApproveEnds(p) == pc[p] = "approve" /\ pc'[p] = "idle"

\* C1: ApproveLoan on a Pending loan of amount L whose account X exists, run
\* without interference, adds exactly L to X.balance, leaves the loan Approved
\* with its decision timestamp set, appends exactly one Loan Disbursement of
\* amount L to X, and changes no other balance or transaction.
C1_ApproveStep(p) ==
    LET l == local[p].loan IN
    (ApproveEnds(p) /\ l \in DOMAIN loans /\ loans[l].status = "Pending"
                    /\ loans[l].account_id \in DOMAIN accounts)
    => LET X == loans[l].account_id
           L == loans[l].loan_amount
           new == DOMAIN transactions' \ DOMAIN transactions
       IN /\ DOMAIN accounts' = DOMAIN accounts
          /\ accounts'[X] = [accounts[X] EXCEPT !.balance = accounts[X].balance + L]
          /\ \A a \in DOMAIN accounts \ {X} : accounts'[a] = accounts[a]
          /\ l \in DOMAIN loans'
          /\ loans'[l].status = "Approved"
          /\ loans'[l].approval_date # NULL
          /\ Cardinality(new) = 1
          /\ \A t \in new : transactions'[t] = Disbursement(X, L, l)
          /\ \A t \in DOMAIN transactions : t \in DOMAIN transactions' /\ transactions'[t] = transactions[t]
C1_ApproveCreditsOnce == [][\A p \in Procs : C1_ApproveStep(p)]_vars

C1_Witness ==
    \E l \in DOMAIN loans :
        /\ result[Worker] = "approved"
        /\ loans[l].status = "Approved"
        /\ loans[l].approval_date # NULL
        /\ loans[l].account_id \in DOMAIN accounts
        /\ accounts[loans[l].account_id].balance = loans[l].loan_amount
        /\ Cardinality(DisbursementsOf(l)) = 1

\* What the Loan Disbursement rows of loan l add up to.
RECURSIVE TotalAmount(_)
TotalAmount(T) ==
    IF T = {} THEN 0
    ELSE LET t == CHOOSE x \in T : TRUE IN transactions[t].amount + TotalAmount(T \ {t})

\* C2: when two ApproveLoan requests for one Pending loan run concurrently,
\* in every interleaving the account is credited by the loan amount exactly
\* once and exactly one Loan Disbursement transaction exists for the loan.
C2_ApprovedLoanDisbursedOnce ==
    \A l \in DOMAIN loans :
        loans[l].status = "Approved"
        => /\ Cardinality(DisbursementsOf(l)) = 1
           /\ TotalAmount(DisbursementsOf(l)) = loans[l].loan_amount

\* C3: in every state reached by ApproveLoan, RejectLoan and admin customer
\* deletion calls, a loan has a Loan Disbursement transaction if and only if
\* its status is Approved: an Approved loan has one, any other loan none.
C3_DisbursedIffApproved ==
    \A l \in DOMAIN loans :
        Cardinality(DisbursementsOf(l)) = (IF loans[l].status = "Approved" THEN 1 ELSE 0)

\* C4: a loan that is Approved or Rejected never changes again, and
\* ApproveLoan or RejectLoan on a loan that is not Pending is a no-op: the
\* handler goes on to its write only for a Pending loan, and a call answered
\* "already approved" or "cannot be approved / rejected" leaves every loan,
\* balance and transaction as it was.
C4_Step ==
    /\ \A l \in DOMAIN loans \cap DOMAIN loans' :
          loans[l].status \in {"Approved", "Rejected"} => loans'[l] = loans[l]
    /\ \A p \in Procs :
          /\ (Idle(p) /\ pc'[p] \in {"approve", "reject"})
             => loans[local'[p].loan].status = "Pending" /\ UNCHANGED db
          /\ (Idle(p) /\ pc'[p] = "idle"
                /\ result'[p] \in {"already_approved", "cannot_approve", "cannot_reject"})
             => UNCHANGED db
C4_DecisionsAreFinal == [][C4_Step]_vars

C4_Witness ==
    /\ result[Worker] = "already_approved"
    /\ \E l \in DOMAIN loans : loans[l].status = "Approved" /\ Cardinality(DisbursementsOf(l)) = 1
    /\ \E l \in DOMAIN loans : loans[l].status = "Rejected"

\* C5: ApproveLoan on a Pending loan whose account no longer exists fails and
\* is rolled back: the stored loan is still Pending with no decision
\* timestamp, no transaction is appended and no balance changes.
C5_Step(p) ==
    LET l == local[p].loan IN
    (ApproveEnds(p) /\ l \in DOMAIN loans /\ loans[l].status = "Pending"
                    /\ loans[l].account_id \notin DOMAIN accounts)
    => /\ result'[p] = "account_not_found"
       /\ loans' = loans
       /\ loans'[l].status = "Pending"
       /\ loans'[l].approval_date = NULL
       /\ transactions' = transactions
       /\ accounts' = accounts
C5_MissingAccountRollsBack == [][\A p \in Procs : C5_Step(p)]_vars

C5_Witness ==
    /\ result[Worker] = "account_not_found"
    /\ \E l \in DOMAIN loans :
          /\ loans[l].status = "Pending"
          /\ loans[l].approval_date = NULL
          /\ loans[l].account_id \notin DOMAIN accounts
          /\ DisbursementsOf(l) = {}

\* C6: RejectLoan on a Pending loan sets its status to Rejected and sets the
\* decision timestamp; on a loan in any state it leaves every account
\* balance and the transaction records unchanged.
C6_Step(p) ==
    LET l == local[p].loan IN
    /\ (pc[p] = "reject" /\ pc'[p] = "idle" /\ l \in DOMAIN loans /\ loans[l].status = "Pending")
       => /\ loans'[l].status = "Rejected"
          /\ loans'[l].approval_date # NULL
          /\ \A k \in DOMAIN loans \ {l} : k \in DOMAIN loans' /\ loans'[k] = loans[k]
    /\ (pc[p] = "reject" \/ pc'[p] = "reject" \/ (Idle(p) /\ result'[p] = "cannot_reject"))
       => accounts' = accounts /\ transactions' = transactions
C6_RejectHasNoBalanceEffect == [][\A p \in Procs : C6_Step(p)]_vars

C6_Witness ==
    /\ result[Worker] = "rejected"
    /\ \E l \in DOMAIN loans : loans[l].status = "Rejected" /\ loans[l].approval_date # NULL
    /\ \E a \in DOMAIN accounts : accounts[a].balance > 0

\* C9: a successful admin deletion of customer c removes the customer, the
\* accounts it owned, the transactions of those accounts and the customer's
\* loans; afterwards no loan or transaction refers to a deleted account, and
\* every other customer's accounts, balances, transactions and loans are
\* unchanged.
C9_Step(c) ==
    (c \in DOMAIN customers /\ c \notin DOMAIN customers')
    => LET gone == OwnedAccounts(c) IN
       /\ customers' = DeleteRows(customers, {c})
       /\ accounts' = DeleteRows(accounts, gone)
       /\ loans' = DeleteRows(loans, OwnedLoans(c))
       /\ transactions' = DeleteRows(transactions, TransactionsOf(gone))
       /\ \A l \in DOMAIN loans' : loans'[l].account_id \notin gone
       /\ \A t \in DOMAIN transactions' :
             /\ transactions'[t].account_id \notin gone
             /\ transactions'[t].target_account_id \notin gone
C9_DeleteCascades == [][\A c \in DOMAIN customers : C9_Step(c)]_vars

\* C7: no two stored customers share a contact identifier, and a registration
\* whose contact identifier a stored customer already holds fails and creates
\* no customer and no account: it does not get past the lookup of line 426,
\* and when the other registration committed after that lookup its INSERT
\* fails and the request ends.
C7_Unique ==
    \A a, b \in DOMAIN customers : a # b => customers[a].contact_info # customers[b].contact_info
C7_Step(p) ==
    /\ (Idle(p) /\ pc'[p] = "reg_customer") => ~ExistingCustomer(local'[p].contact)
    /\ (pc[p] = "reg_customer" /\ pc'[p] # "reg_customer" /\ ExistingCustomer(local[p].contact))
       => /\ pc'[p] = "idle"
          /\ result'[p] = "registration_error"
          /\ customers' = customers
          /\ accounts' = accounts
C7_ContactsUnique == []C7_Unique /\ [][\A p \in Procs : C7_Step(p)]_vars

C7_Witness ==
    \E p, q \in Procs :
        /\ result[p] = "registration_error" /\ Idle(p)
        /\ pc[q] = "reg_number"
        /\ DOMAIN customers = {local[q].cust}
        /\ customers[local[q].cust].contact_info = local[q].contact
        /\ accounts = <<>>

\* C8: every stored account number is a 10-digit numeric string, no two
\* accounts share a number, a new account's number differs from the numbers
\* of all accounts stored before it, and an account's number never changes.
C8_Unique ==
    /\ \A a, b \in DOMAIN accounts : a # b => accounts[a].account_number # accounts[b].account_number
    /\ \A a \in DOMAIN accounts :
          /\ Len(accounts[a].account_number) = 10
          /\ \A i \in 1..Len(accounts[a].account_number) : accounts[a].account_number[i] \in 0..9
C8_Step ==
    \A a \in DOMAIN accounts' :
        IF a \in DOMAIN accounts
        THEN accounts'[a].account_number = accounts[a].account_number
        ELSE accounts'[a].account_number \notin Numbers
C8_AccountNumbersUnique == []C8_Unique /\ [][C8_Step]_vars

C8_Witness ==
    /\ \E a, b \in DOMAIN accounts : a # b /\ accounts[a].account_number = Str(RandIntHi)
    /\ \E p \in Procs : result[p] = "registration_error"
    /\ \E p \in Procs : result[p] = "registered"

\* C10 as stated: N concurrent Withdraw(A, A.balance) calls against the same
\* starting balance end with exactly one success and N-1 InvalidAmount or
\* StoreConflict failures, and the balance is never negative.
AllWithdrawn == \A p \in Procs : Called(p) /\ Idle(p)
Successes == {p \in Procs : result[p] = "withdrawn"}
NeverNegative == \A a \in DOMAIN accounts : accounts[a].balance >= 0
C10_ExactlyOneSuccess ==
    /\ NeverNegative
    /\ AllWithdrawn => /\ Cardinality(Successes) = 1
                       /\ \A p \in Procs \ Successes : result[p] \in {"InvalidAmount", "StoreConflict"}

\* C10 amended: against a starting balance b > 0 exactly one call succeeds
\* and the N-1 others fail with InvalidAmount or StoreConflict, leaving the
\* balance 0; against b = 0 all N fail; the balance is never negative.
C10_OneSuccessIfPositive ==
    /\ NeverNegative
    /\ AllWithdrawn =>
          /\ \A p \in Procs : local[p].amount = local[Worker].amount
          /\ Cardinality(Successes) = (IF local[Worker].amount > 0 THEN 1 ELSE 0)
          /\ \A p \in Procs \ Successes : result[p] \in {"InvalidAmount", "StoreConflict"}
          /\ accounts[local[Worker].account_id].balance = 0

C10_Witness ==
    /\ AllWithdrawn
    /\ local[Worker].amount > 0
    /\ Cardinality(Successes) = 1
    /\ \E p \in Procs : result[p] = "InvalidAmount"

\* ------------------------------------------------------------------- C11
\* The step that ends register, as seen from request p.
RegisterEnds(p) == pc[p] \in {"reg_customer", "reg_account"} /\ pc'[p] = "idle"

C11_Step(p) ==
    RegisterEnds(p) =>
        /\ result'[p] = "registered" =>
               /\ local[p].cust \in DOMAIN customers'
               /\ \E a \in DOMAIN accounts' \ DOMAIN accounts :
                      /\ DOMAIN accounts' = DOMAIN accounts \cup {a}
                      /\ accounts'[a].customer_id = local[p].cust
                      /\ accounts'[a].balance = 0
        /\ result'[p] = "registration_error" =>
               /\ accounts' = accounts
               /\ local[p].cust \notin DOMAIN customers'

\* C11: registration is all-or-nothing: a register request that succeeds
\* leaves its new customer owning one new account with balance 0, and one
\* that fails at any step, also after the customer row was committed, leaves
\* no customer record of its own behind.
C11_RegistrationAllOrNothing == [][\A p \in Procs : C11_Step(p)]_vars

====
